---- MODULE Spec2Model ----
(***************************************************************************)
(* A model of app.py: the webhook-driven moderation and greeting bot.      *)
(*                                                                         *)
(* Two state machines share the variables below.                           *)
(*   Spec     one update handed to the registered handlers: dispatch, then *)
(*            the handler's platform calls, each of which may fail.        *)
(*   SysSpec  the process: module import, main(), the Flask routes and the *)
(*            event loop's update fetcher.                                 *)
(* Strings whose content matters (message text, user handle) are sequences *)
(* of one-character strings.                                               *)
(***************************************************************************)
EXTENDS Integers, Sequences, FiniteSets, TLC

VARIABLES
    env,          \* os.getenv values read at import (lines 19-23)
    update,       \* the Update being handled
    handler,      \* callback chosen by the dispatcher, "none" if no handler matched
    pc,           \* position inside the handler invocation
    is_spam,      \* spam_filter's local is_spam ("unset" before line 100)
    idx,          \* welcome_new_member's position in new_chat_members
    calls,        \* outbound platform calls made so far, in order
    mainpc,       \* position of the process: import, main(), app.run
    fetcher,      \* the Application's update fetcher task
    update_queue, \* bot_app.update_queue
    responses,    \* HTTP responses given by /webhook, in order
    handled       \* request numbers whose update a handler was invoked on

vars == <<env, update, handler, pc, is_spam, idx, calls,
          mainpc, fetcher, update_queue, responses, handled>>

handlerVars == <<update, handler, pc, is_spam, idx, calls>>
sysVars == <<mainpc, fetcher, update_queue, responses, handled>>

-----------------------------------------------------------------------------
(* Bounds of the model *)

\* a message text is the concatenation of at most MaxFrags fragments
MaxFrags == 3
\* a join event carries at most MaxMembers new members
MaxMembers == 2
\* the platform posts at most MaxPosts callbacks
MaxPosts == 2

-----------------------------------------------------------------------------
(* Strings *)

\* Python's None where a string (a sequence of characters) is expected
None == <<"None">>

UpperCase == <<"A","B","C","D","E","F","G","H","I","J","K","L","M",
               "N","O","P","Q","R","S","T","U","V","W","X","Y","Z">>
LowerCase == <<"a","b","c","d","e","f","g","h","i","j","k","l","m",
               "n","o","p","q","r","s","t","u","v","w","x","y","z">>

\* str.lower() on one character
LowerChar(c) ==
    IF \E i \in 1..26 : UpperCase[i] = c
    THEN LowerCase[CHOOSE i \in 1..26 : UpperCase[i] = c]
    ELSE c

\* str.lower()
Lower(s) == [i \in 1..Len(s) |-> LowerChar(s[i])]

\* needle in hay
Contains(hay, needle) ==
    \E i \in 1..(Len(hay) - Len(needle) + 1) :
        SubSeq(hay, i, i + Len(needle) - 1) = needle

\* s[i:].startswith(p), i counted from 1
StartsWithAt(s, i, p) ==
    /\ i + Len(p) - 1 <= Len(s)
    /\ SubSeq(s, i, i + Len(p) - 1) = p

RECURSIVE LStrip(_, _)
LStrip(s, c) == IF s # <<>> /\ Head(s) = c THEN LStrip(Tail(s), c) ELSE s

RECURSIVE RStrip(_, _)
RStrip(s, c) ==
    IF s # <<>> /\ s[Len(s)] = c THEN RStrip(SubSeq(s, 1, Len(s) - 1), c) ELSE s

\* str.strip(c) for a single character c
Strip(s, c) == RStrip(LStrip(s, c), c)

-----------------------------------------------------------------------------
(* Spam classification, lines 89-103 *)

BANNED_KEYWORDS ==
    << <<"a","i","r","d","r","o","p">>,
       <<"d","o","u","b","l","e"," ","y","o","u","r">>,
       <<"g","i","v","e","a","w","a","y">>,
       <<"c","r","y","p","t","o"," ","b","o","n","u","s">>,
       <<"w","i","n"," ","b","t","c">>,
       <<"c","l","a","i","m"," ","n","o","w">> >>

\* the regular expression https?:// matched at position i
UrlMatchAt(text, i) ==
    /\ StartsWithAt(text, i, <<"h","t","t","p">>)
    /\ \/ /\ StartsWithAt(text, i + 4, <<"s">>)
          /\ StartsWithAt(text, i + 5, <<":","/","/">>)
       \/ StartsWithAt(text, i + 4, <<":","/","/">>)

\* URL_PATTERN.search(text) finds a match
URL_PATTERN_search(text) == \E i \in 1..Len(text) : UrlMatchAt(text, i)

\* any(word in text for word in BANNED_KEYWORDS)
AnyBanned(text) ==
    \E k \in 1..Len(BANNED_KEYWORDS) : Contains(text, BANNED_KEYWORDS[k])

\* the keyword test without lowercasing the text
KeywordHitCaseSensitive(text) == AnyBanned(text)

\* any(word in text.lower() for word in BANNED_KEYWORDS)
KeywordHit(text) == AnyBanned(Lower(text))

\* is_spam of lines 100-103: True, else the search's Match object, else None
IsSpam(text) ==
    IF KeywordHit(text) THEN "True"
    ELSE IF URL_PATTERN_search(text) THEN "Match"
    ELSE "None"

\* the truth value Python gives such a value
Truthy(v) == v \in {"True", "Match"}

-----------------------------------------------------------------------------
(* Configuration, lines 19-23 *)

GoodToken == <<"1",":","k">>
GoodUrl == <<"h","t","t","p","s",":","/","/","b",".","i","o">>

\* the values each environment variable may hold: unset, unusable, usable
\* (nothing in the program tells a usable support link from an unusable one)
EnvDomain ==
    [BOT_TOKEN      |-> {None, <<"x">>, GoodToken},
     ADMIN_USERNAME |-> {None, <<>>, <<"@","a","d","m">>},
     SUPPORT_LINK   |-> {None, GoodUrl},
     ADMIN_CHAT_ID  |-> {None, <<"a","b","c">>, <<"-","4","2">>},
     WEBHOOK_URL    |-> {None, <<"b",".","i","o">>, GoodUrl}]

EnvKeys == DOMAIN EnvDomain

Envs == [BOT_TOKEN : EnvDomain.BOT_TOKEN,
         ADMIN_USERNAME : EnvDomain.ADMIN_USERNAME,
         SUPPORT_LINK : EnvDomain.SUPPORT_LINK,
         ADMIN_CHAT_ID : EnvDomain.ADMIN_CHAT_ID,
         WEBHOOK_URL : EnvDomain.WEBHOOK_URL]

Digits == {"0","1","2","3","4","5","6","7","8","9"}

\* int(s) returns (s is an optionally signed, non-empty run of digits)
IntParses(s) ==
    /\ s # None
    /\ LET d == IF s # <<>> /\ Head(s) \in {"-", "+"} THEN Tail(s) ELSE s
       IN  d # <<>> /\ \A i \in 1..Len(d) : d[i] \in Digits

\* f"{x}" of an optional string
Format(x) == IF x = None THEN <<"N","o","n","e">> ELSE x

\* line 22 does not raise
ConfigLoads(e) == IntParses(e.ADMIN_CHAT_ID)

\* line 42 does not raise: the Bot refuses an absent or empty token
AppBuilds(e) == e.BOT_TOKEN # None /\ e.BOT_TOKEN # <<>>

\* the platform accepts the set_webhook call of line 157
WebhookAccepted(e) ==
    /\ e.BOT_TOKEN = GoodToken
    /\ StartsWithAt(Format(e.WEBHOOK_URL) \o <<"/","w","e","b","h","o","o","k">>,
                    1, <<"h","t","t","p","s",":","/","/">>)

\* the platform accepts the get_me call made by initialize(), line 159
BotKnown(e) == e.BOT_TOKEN = GoodToken

\* configurations with which the process gets to app.run
ServingEnvs ==
    {e \in Envs : ConfigLoads(e) /\ AppBuilds(e) /\ WebhookAccepted(e) /\ BotKnown(e)}

-----------------------------------------------------------------------------
(* Menu, lines 47-54 *)

TMe == <<"h","t","t","p","s",":","/","/","t",".","m","e","/">>

\* get_main_keyboard() raises: None has no strip()
KeyboardRaises(e) == e.ADMIN_USERNAME = None

\* get_main_keyboard(): one row of two url buttons
get_main_keyboard(e) ==
    << [label |-> "Contact Admin", url |-> TMe \o Strip(e.ADMIN_USERNAME, "@")],
       [label |-> "Support Chat",  url |-> e.SUPPORT_LINK] >>

-----------------------------------------------------------------------------
(* Updates *)

Ana == [username |-> <<"a","n","a">>, first_name |-> <<"A","n","a">>]
Bo  == [username |-> None,            first_name |-> <<"B","o">>]
Users == {Ana, Bo}

BotUsername == <<"b","o","t">>

Fragments ==
    { <<"a","i","r">>, <<"d","r","o","p">>, <<"W","I","N"," ","b","T","c">>,
      <<"h","t","t","p">>, <<"H","T","T","P">>, <<"s">>, <<":","/","/">>,
      <<"w","w","w",".">> }

RECURSIVE TextsUpTo(_)
TextsUpTo(n) ==
    IF n = 0 THEN {<<>>}
    ELSE LET T == TextsUpTo(n - 1) IN T \cup {t \o f : t \in T, f \in Fragments}

\* texts of ordinary messages: never empty on the platform
Texts == TextsUpTo(MaxFrags) \ {<<>>}

CommandWords ==
    { <<"/","s","t","a","r","t">>, <<"/","h","e","l","p">>, <<"/","b","a","n">>,
      <<"/","S","T","A","R","T">>, <<"/","h","e","l","p","@","b","o","t">>,
      <<"/","h","e","l","p","@","c","a","t">> }

CommandArgs == { <<>>, <<" ","h","t","t","p",":","/","/">>, <<" ","a","i","r","d","r","o","p">> }

RECURSIVE SeqsUpTo(_, _)
SeqsUpTo(S, n) ==
    IF n = 0 THEN {<<>>}
    ELSE LET T == SeqsUpTo(S, n - 1) IN T \cup {Append(t, x) : t \in T, x \in S}

Message(text, entities, members, user) ==
    [text |-> text, entities |-> entities, new_chat_members |-> members,
     from_user |-> user, chat_id |-> "group"]

BotCommand(offset, length) ==
    [type |-> "bot_command", offset |-> offset, length |-> length]

\* plain text
TextMessages == {Message(t, <<>>, <<>>, u) : t \in Texts, u \in Users}

\* text opening with a command
CommandMessages ==
    {Message(w \o a, <<BotCommand(0, Len(w))>>, <<>>, u) :
        w \in CommandWords, a \in CommandArgs, u \in Users}

\* text with a command further in
InnerCommandMessages ==
    {Message(<<"x"," ">> \o w, <<BotCommand(2, Len(w))>>, <<>>, u) :
        w \in CommandWords, u \in Users}

\* service messages: members joined (or, with no member, any other text-less message)
JoinMessages ==
    {Message(None, <<>>, m, u) : m \in SeqsUpTo(Users, MaxMembers), u \in Users}

\* the updates the platform sends: new messages of every kind, edits of text ones
Updates ==
    {[carrier |-> "message", msg |-> m] :
        m \in TextMessages \cup CommandMessages \cup InnerCommandMessages \cup JoinMessages}
    \cup
    {[carrier |-> "edited_message", msg |-> m] :
        m \in TextMessages \cup CommandMessages}

\* update.message
UpdateMessageIsNone(u) == u.carrier # "message"

\* update.effective_message
effective_message(u) == u.msg

-----------------------------------------------------------------------------
(* Dispatch: the handlers registered in lines 129-132, tried in that order *)

\* s.split("@"), as far as its first two parts
BeforeAt(s) ==
    IF \E i \in 1..Len(s) : s[i] = "@"
    THEN SubSeq(s, 1, (CHOOSE i \in 1..Len(s) : s[i] = "@" /\ \A j \in 1..(i-1) : s[j] # "@") - 1)
    ELSE s

AfterAt(s) ==
    IF \E i \in 1..Len(s) : s[i] = "@"
    THEN BeforeAt(SubSeq(s, Len(BeforeAt(s)) + 2, Len(s)))
    ELSE BotUsername

\* filters.COMMAND: the message opens with a bot command
FilterCOMMAND(m) ==
    /\ m.entities # <<>>
    /\ m.entities[1].type = "bot_command"
    /\ m.entities[1].offset = 0

\* filters.TEXT: the message has a non-empty text
FilterTEXT(m) == m.text # None /\ m.text # <<>>

\* filters.StatusUpdate.NEW_CHAT_MEMBERS, line 131
FilterNEW_CHAT_MEMBERS(m) == m.new_chat_members # <<>>

\* a text filter that leaves commands in
TextOnly(m) == FilterTEXT(m)

\* filters.TEXT & (~filters.COMMAND), line 132
TextNotCommand(m) == FilterTEXT(m) /\ ~FilterCOMMAND(m)

\* CommandHandler(name, ...).check_update, lines 129-130
CommandMatches(name, m) ==
    /\ FilterCOMMAND(m)
    /\ FilterTEXT(m)
    /\ LET command == SubSeq(m.text, 2, m.entities[1].length)
       IN  /\ Lower(BeforeAt(command)) = name
           /\ Lower(AfterAt(command)) = Lower(BotUsername)

\* bot_app's handlers in the order of registration
Handlers == <<"start", "help_handler", "welcome_new_member", "spam_filter">>

\* the handler's check_update
CheckUpdate(h, u) ==
    LET m == effective_message(u) IN
    CASE h = "start"              -> CommandMatches(<<"s","t","a","r","t">>, m)
      [] h = "help_handler"       -> CommandMatches(<<"h","e","l","p">>, m)
      [] h = "welcome_new_member" -> FilterNEW_CHAT_MEMBERS(m)
      [] h = "spam_filter"        -> TextNotCommand(m)

\* process_update: the first registered handler that accepts the update, if any
Chosen(u) ==
    IF \E i \in 1..Len(Handlers) : CheckUpdate(Handlers[i], u)
    THEN Handlers[CHOOSE i \in 1..Len(Handlers) :
                     /\ CheckUpdate(Handlers[i], u)
                     /\ \A j \in 1..(i-1) : ~CheckUpdate(Handlers[j], u)]
    ELSE "none"

Dispatch ==
    /\ pc = "dispatch"
    /\ handler' = Chosen(update)
    /\ pc' = IF handler' = "none" THEN "returned" ELSE handler'
    /\ UNCHANGED <<env, update, is_spam, idx, calls>>
    /\ UNCHANGED sysVars

-----------------------------------------------------------------------------
(* Handlers, lines 60-123 *)

\* one outbound platform call and its outcome
Call(op, chat, what, who, markup, ok) ==
    [op |-> op, chat |-> chat, what |-> what, who |-> who, markup |-> markup, ok |-> ok]

NoMarkup == <<>>

\* start, lines 60-67
Start ==
    /\ pc = "start"
    /\ \/ /\ UpdateMessageIsNone(update) \/ KeyboardRaises(env)
          /\ pc' = "raised"
          /\ calls' = calls
       \/ /\ ~UpdateMessageIsNone(update) /\ ~KeyboardRaises(env)
          /\ \E ok \in BOOLEAN :
                /\ calls' = Append(calls,
                       Call("reply_text", update.msg.chat_id, "welcome",
                            update.msg.from_user.first_name, get_main_keyboard(env), ok))
                /\ pc' = IF ok THEN "returned" ELSE "raised"
    /\ UNCHANGED <<env, update, handler, is_spam, idx>>
    /\ UNCHANGED sysVars

\* help_handler, lines 69-74
HelpHandler ==
    /\ pc = "help_handler"
    /\ \/ /\ UpdateMessageIsNone(update) \/ KeyboardRaises(env)
          /\ pc' = "raised"
          /\ calls' = calls
       \/ /\ ~UpdateMessageIsNone(update) /\ ~KeyboardRaises(env)
          /\ \E ok \in BOOLEAN :
                /\ calls' = Append(calls,
                       Call("reply_text", update.msg.chat_id, "help", None,
                            get_main_keyboard(env), ok))
                /\ pc' = IF ok THEN "returned" ELSE "raised"
    /\ UNCHANGED <<env, update, handler, is_spam, idx>>
    /\ UNCHANGED sysVars

\* one iteration of the loop of welcome_new_member, lines 76-83
WelcomeNewMember ==
    /\ pc = "welcome_new_member"
    /\ LET members == update.msg.new_chat_members
           n == Len(members)
       IN  \/ /\ idx > n
              /\ pc' = "returned"
              /\ UNCHANGED <<idx, calls>>
           \/ /\ idx <= n
              /\ KeyboardRaises(env)
              /\ pc' = "raised"
              /\ UNCHANGED <<idx, calls>>
           \/ /\ idx <= n
              /\ ~KeyboardRaises(env)
              /\ \E ok \in BOOLEAN :
                    /\ calls' = Append(calls,
                           Call("reply_text", update.msg.chat_id, "welcome",
                                members[idx].first_name, get_main_keyboard(env), ok))
                    /\ idx' = idx + 1
                    /\ pc' = IF ok THEN "welcome_new_member" ELSE "raised"
    /\ UNCHANGED <<env, update, handler, is_spam>>
    /\ UNCHANGED sysVars

\* a verdict that is not consulted
AlwaysModerate(verdict) == "delete"

\* line 105: the moderation steps run only on a positive verdict
AfterVerdict(verdict) == IF Truthy(verdict) THEN "delete" ELSE "returned"

\* spam_filter up to its verdict, lines 94-105
SpamFilterClassify ==
    /\ pc = "spam_filter"
    /\ IF UpdateMessageIsNone(update)
       THEN /\ pc' = "raised"
            /\ UNCHANGED is_spam
       ELSE LET text == IF FilterTEXT(update.msg) THEN update.msg.text ELSE <<>>
            IN  /\ is_spam' = IsSpam(text)
                /\ pc' = AfterVerdict(is_spam')
    /\ UNCHANGED <<env, update, handler, idx, calls>>
    /\ UNCHANGED sysVars

\* a failed delete aborting the handler
DeleteFailureAborts == "raised"

\* a failed delete not skipping the notice
DeleteFailureKeepsNotice == "notice"

\* lines 113-114: a failure in the first try block is logged, then line 117 follows
AfterDeleteFailure == "forward"

\* message.delete(), line 108
SpamDelete ==
    /\ pc = "delete"
    /\ \E ok \in BOOLEAN :
          /\ calls' = Append(calls,
                 Call("delete", update.msg.chat_id, "message", None, NoMarkup, ok))
          /\ pc' = IF ok THEN "notice" ELSE AfterDeleteFailure
    /\ UNCHANGED <<env, update, handler, is_spam, idx>>
    /\ UNCHANGED sysVars

\* the chat notice, lines 109-112; its failure is caught by lines 113-114
SpamNotice ==
    /\ pc = "notice"
    /\ \E ok \in BOOLEAN :
          /\ calls' = Append(calls,
                 Call("send_message", update.msg.chat_id, "removed",
                      update.msg.from_user.username, NoMarkup, ok))
          /\ pc' = "forward"
    /\ UNCHANGED <<env, update, handler, is_spam, idx>>
    /\ UNCHANGED sysVars

\* user.username or user.first_name, line 120
UsernameOrFirstName(user) ==
    IF user.username # None /\ user.username # <<>> THEN user.username ELSE user.first_name

\* the admin forward, lines 117-123; its failure is caught by lines 122-123
SpamForward ==
    /\ pc = "forward"
    /\ \E ok \in BOOLEAN :
          /\ calls' = Append(calls,
                 Call("send_message", "ADMIN_CHAT_ID", "alert",
                      UsernameOrFirstName(update.msg.from_user), NoMarkup, ok))
          /\ pc' = "returned"
    /\ UNCHANGED <<env, update, handler, is_spam, idx>>
    /\ UNCHANGED sysVars

-----------------------------------------------------------------------------
(* One update through the handlers, as the Application's process_update     *)
(* runs them on an update taken from the queue                             *)

Init ==
    /\ env \in ServingEnvs
    /\ update \in Updates
    /\ handler = "none"
    /\ pc = "dispatch"
    /\ is_spam = "unset"
    /\ idx = 1
    /\ calls = <<>>
    /\ mainpc = "started"
    /\ fetcher = "processing"
    /\ update_queue = <<>>
    /\ responses = <<>>
    /\ handled = {}

Next ==
    \/ Dispatch
    \/ Start
    \/ HelpHandler
    \/ WelcomeNewMember
    \/ SpamFilterClassify
    \/ SpamDelete
    \/ SpamNotice
    \/ SpamForward

Spec == Init /\ [][Next]_vars

-----------------------------------------------------------------------------
(* The process: import, main() and the routes, lines 17-42 and 138-164 *)

NoUpdate == [carrier |-> "none", msg |-> Message(None, <<>>, <<>>, Bo)]

\* bodies the platform, or anyone else, may post to /webhook
Bodies == {"not json", "json, not an update", "update"}

\* updates carried by well-formed bodies
PostedUpdates ==
    {[carrier |-> "message", msg |-> Message(<<"a","i","r","d","r","o","p">>, <<>>, <<>>, Ana)],
     [carrier |-> "message", msg |-> Message(None, <<>>, <<Bo>>, Ana)]}

Response(status, body) == [status |-> status, body |-> body]

\* the event loop can run another task: the main coroutine is suspended in an await
LoopFree == mainpc = "start_suspended"

\* module import, lines 17-23: int(os.getenv("ADMIN_CHAT_ID"))
LoadConfig ==
    /\ mainpc = "import"
    /\ mainpc' = IF ConfigLoads(env) THEN "build" ELSE "crashed"
    /\ UNCHANGED <<env, fetcher, update_queue, responses, handled>>
    /\ UNCHANGED handlerVars

\* module import, lines 41-42 and 129-132: the Application and its handlers
BuildApplication ==
    /\ mainpc = "build"
    /\ mainpc' = IF AppBuilds(env) THEN "set_webhook" ELSE "crashed"
    /\ UNCHANGED <<env, fetcher, update_queue, responses, handled>>
    /\ UNCHANGED handlerVars

\* main(), line 157: the call raises when the platform refuses it or cannot be reached
SetWebhook ==
    /\ mainpc = "set_webhook"
    /\ \E reached \in BOOLEAN :
          mainpc' = IF reached /\ WebhookAccepted(env) THEN "initialize" ELSE "crashed"
    /\ UNCHANGED <<env, fetcher, update_queue, responses, handled>>
    /\ UNCHANGED handlerVars

\* main(), line 159
Initialize ==
    /\ mainpc = "initialize"
    /\ \E reached \in BOOLEAN :
          mainpc' = IF reached /\ BotKnown(env) THEN "start" ELSE "crashed"
    /\ UNCHANGED <<env, fetcher, update_queue, responses, handled>>
    /\ UNCHANGED handlerVars

\* main(), line 160: start() creates the update fetcher task; whether start()
\* suspends after that, letting the loop run the new task, is left open
StartApplication ==
    /\ mainpc = "start"
    /\ fetcher' = "ready"
    /\ \E suspends \in BOOLEAN :
          mainpc' = IF suspends THEN "start_suspended" ELSE "app_run"
    /\ UNCHANGED <<env, update_queue, responses, handled>>
    /\ UNCHANGED handlerVars

\* main(), line 160: the await returns
StartReturns ==
    /\ mainpc = "start_suspended"
    /\ mainpc' = "app_run"
    /\ UNCHANGED <<env, fetcher, update_queue, responses, handled>>
    /\ UNCHANGED handlerVars

\* main(), line 162: app.run() is a blocking call made inside the coroutine; it
\* serves requests and does not give the thread back to the event loop
AppRun ==
    /\ mainpc = "app_run"
    /\ mainpc' = "serving"
    /\ UNCHANGED <<env, fetcher, update_queue, responses, handled>>
    /\ UNCHANGED handlerVars

\* webhook(), lines 138-143: get_json raises BadRequest on a body that is not
\* JSON, de_json raises on JSON that is no update; Flask answers 400 and 500
Webhook ==
    /\ mainpc = "serving"
    /\ Len(responses) < MaxPosts
    /\ \E body \in Bodies :
          CASE body = "not json" ->
                  /\ responses' = Append(responses, Response(400, "Bad Request"))
                  /\ UNCHANGED update_queue
            [] body = "json, not an update" ->
                  /\ responses' = Append(responses, Response(500, "Internal Server Error"))
                  /\ UNCHANGED update_queue
            [] body = "update" ->
                  \E u \in PostedUpdates :
                     /\ update_queue' = Append(update_queue,
                            [post |-> Len(responses) + 1, update |-> u])
                     /\ responses' = Append(responses, Response(200, "ok"))
    /\ UNCHANGED <<env, mainpc, fetcher, handled>>
    /\ UNCHANGED handlerVars

\* one turn of the Application's update fetcher, the task start() created: it
\* waits on an empty queue, else takes the oldest update and has it handled.
\* It runs only when the event loop gets the thread.
UpdateFetcher ==
    /\ fetcher \in {"ready", "waiting"}
    /\ LoopFree
    /\ IF update_queue = <<>>
       THEN /\ fetcher' = "waiting"
            /\ UNCHANGED <<update_queue, handled>>
       ELSE /\ update_queue' = Tail(update_queue)
            /\ handled' = handled \cup {Head(update_queue).post}
            /\ fetcher' = "ready"
    /\ UNCHANGED <<env, mainpc, responses>>
    /\ UNCHANGED handlerVars

SysInit ==
    /\ env \in Envs
    /\ mainpc = "import"
    /\ fetcher = "absent"
    /\ update_queue = <<>>
    /\ responses = <<>>
    /\ handled = {}
    /\ update = NoUpdate
    /\ handler = "none"
    /\ pc = "idle"
    /\ is_spam = "unset"
    /\ idx = 1
    /\ calls = <<>>

SysNext ==
    \/ LoadConfig
    \/ BuildApplication
    \/ SetWebhook
    \/ Initialize
    \/ StartApplication
    \/ StartReturns
    \/ AppRun
    \/ Webhook
    \/ UpdateFetcher

SysSpec == SysInit /\ [][SysNext]_vars

\* the main thread and the event loop take every step they can
SysFairSpec ==
    /\ SysInit
    /\ [][SysNext]_vars
    /\ WF_vars(LoadConfig)
    /\ WF_vars(BuildApplication)
    /\ WF_vars(SetWebhook)
    /\ WF_vars(Initialize)
    /\ WF_vars(StartApplication)
    /\ WF_vars(StartReturns)
    /\ WF_vars(AppRun)
    /\ WF_vars(UpdateFetcher)

-----------------------------------------------------------------------------
(* Properties *)

\* the handler invocation is over
Finished == pc \in {"returned", "raised"}

\* the calls of the given kind made so far
Attempted(what) == \E i \in 1..Len(calls) : calls[i].what = what

\* the text the verdict is computed on: message.text or ""
TextOf(u) == IF u.msg.text = None THEN <<>> ELSE u.msg.text

\* the verdict as the specification words it
StatedSpam(text) ==
    \/ LET lowered == Lower(text)
       IN  \E k \in 1..Len(BANNED_KEYWORDS) : Contains(lowered, BANNED_KEYWORDS[k])
    \/ Contains(text, <<"h","t","t","p",":","/","/">>)
    \/ Contains(text, <<"h","t","t","p","s",":","/","/">>)

\* C1: once spam_filter has run on a message it classified as spam, both the
\* delete (the first step) and the admin forward (the second) were attempted,
\* whatever the outcome of each platform call.
C1_BothStepsAttempted ==
    (handler = "spam_filter" /\ Finished /\ Truthy(is_spam))
        => (Attempted("message") /\ Attempted("alert"))

\* C1 witness: the delete failed and the admin forward was attempted all the
\* same, and failed too.
C1_Witness ==
    /\ handler = "spam_filter" /\ pc = "returned"
    /\ Len(calls) = 2
    /\ calls[1].op = "delete" /\ ~calls[1].ok
    /\ calls[2].what = "alert" /\ ~calls[2].ok

\* C2: the verdict is positive exactly when the lowercased text contains a
\* banned phrase or the text contains http:// or https://.
C2_VerdictIsStated ==
    (handler = "spam_filter" /\ is_spam # "unset")
        => (Truthy(is_spam) <=> StatedSpam(TextOf(update)))

\* C2 witness: a text that holds a banned phrase only once lowercased, and no
\* link, was flagged.
C2_Witness ==
    /\ handler = "spam_filter" /\ Truthy(is_spam)
    /\ ~AnyBanned(TextOf(update))
    /\ ~Contains(TextOf(update), <<":","/","/">>)

\* C3: when welcome_new_member is over, it has issued one greeting per joined
\* member, in the order of the list, each with the menu (stated for a
\* configuration with which the menu can be built).
C3_OneGreetingPerMember ==
    (handler = "welcome_new_member" /\ Finished /\ ~KeyboardRaises(env))
        => /\ Len(calls) = Len(update.msg.new_chat_members)
           /\ \A i \in 1..Len(calls) :
                 /\ calls[i].what = "welcome"
                 /\ calls[i].who = update.msg.new_chat_members[i].first_name
                 /\ calls[i].markup = get_main_keyboard(env)

\* C4: when welcome_new_member is over and a member's greeting failed, every
\* later member's greeting was attempted.
C4_GreetingsIndependent ==
    (handler = "welcome_new_member" /\ Finished)
        => \A i \in 1..Len(calls) :
              ~calls[i].ok => \A j \in (i+1)..Len(update.msg.new_chat_members) : j <= Len(calls)

\* C5: every answer of /webhook is 200 "ok".
C5_AlwaysAcknowledged ==
    \A i \in 1..Len(responses) : responses[i] = Response(200, "ok")

\* C6: every update put on the queue is eventually taken off it and handled.
C6_EnqueuedEventuallyHandled ==
    \A n \in 1..MaxPosts :
        (\E i \in 1..Len(update_queue) : update_queue[i].post = n) ~> (n \in handled)

\* a command event, a new-member event
IsCommandEvent(u) == u.msg \in CommandMessages
IsNewMemberEvent(u) == u.msg \in JoinMessages /\ u.msg.new_chat_members # <<>>

\* C7: a command event never invokes spam_filter and a new-member event never
\* invokes start or help_handler; the only code that runs for an event is that
\* of the one handler the dispatcher chose.
C7_DispatchByKind ==
    /\ IsCommandEvent(update) => handler # "spam_filter"
    /\ IsNewMemberEvent(update) => handler \notin {"start", "help_handler"}
    /\ pc \in {"dispatch", "returned", "raised"} \/ pc = handler
       \/ (handler = "spam_filter" /\ pc \in {"delete", "notice", "forward"})

\* C7 witness: a command other than /start and /help whose text holds a link
\* was dispatched, to no handler at all.
C7_Witness ==
    /\ IsCommandEvent(update) /\ pc = "returned" /\ handler = "none"
    /\ Truthy(IsSpam(TextOf(update)))

\* every required configuration value is present and usable
ConfigValid(e) ==
    /\ e.BOT_TOKEN = GoodToken
    /\ e.ADMIN_USERNAME # None /\ Strip(e.ADMIN_USERNAME, "@") # <<>>
    /\ e.SUPPORT_LINK = GoodUrl
    /\ IntParses(e.ADMIN_CHAT_ID)
    /\ e.WEBHOOK_URL = GoodUrl

\* C8: the process serves HTTP requests only with a valid configuration.
C8_ServesOnlyWithValidConfig == mainpc = "serving" => ConfigValid(env)

\* C9: spam_filter makes a platform call only after a positive verdict on a
\* message that has a text.
C9_NoCallWithoutVerdict ==
    (handler = "spam_filter" /\ (calls # <<>> \/ pc \in {"delete", "notice", "forward"}))
        => (Truthy(is_spam) /\ TextOf(update) # <<>>)

\* C9 witness: spam_filter returned on a negative verdict without any call.
C9_Witness ==
    /\ handler = "spam_filter" /\ pc = "returned"
    /\ is_spam = "None" /\ calls = <<>>

\* C10: the calls of spam_filter come in the order delete, notice, forward;
\* the notice is sent only after a successful delete; the forward follows the
\* delete attempt and is made also when the delete failed.
C10_OrderOfCalls ==
    handler = "spam_filter" =>
        /\ \A i \in 1..Len(calls) :
              /\ calls[i].op = "delete" => i = 1
              /\ calls[i].what = "removed" => (i = 2 /\ calls[1].op = "delete" /\ calls[1].ok)
              /\ calls[i].what = "alert" =>
                    /\ calls[1].op = "delete"
                    /\ i = (IF calls[1].ok THEN 3 ELSE 2)
                    /\ i = Len(calls)
        /\ (Finished /\ Truthy(is_spam)) => Attempted("alert")

\* C10 witness: the delete failed, the notice was skipped, the forward was sent.
C10_Witness ==
    /\ handler = "spam_filter" /\ pc = "returned"
    /\ Len(calls) = 2
    /\ ~calls[1].ok
    /\ calls[2].what = "alert" /\ calls[2].ok

====
